---- MODULE Spec2Model ----
(***************************************************************************)
(* Minilog (src/src/lib.rs): a logger behind the `log` facade.  The model  *)
(* keeps the facade's two process-wide cells (the installed logger and the *)
(* maximum level), the sinks (standard streams and the file system), and   *)
(* one program position per calling thread.  Strings that the code edits   *)
(* (templates, messages, rendered lines, file contents) are sequences of   *)
(* one-character strings, so that replacen is a real substring search.     *)
(***************************************************************************)
EXTENDS Integers, Sequences, FiniteSets, TLC

VARIABLES
    logger,      \* the installed Minilog (logfile_name, fmt_string), or NoLogger
    max_level,   \* log::max_level(): the process-wide LevelFilter
    fs,          \* file system: path -> contents, or Absent
    stdout,      \* bytes written to the standard output stream
    stderr,      \* bytes written to the standard error stream
    pc,          \* per thread: position inside the operation it is running
    frame,       \* per thread: arguments and locals of its current/last call
    result,      \* per thread: outcome of its last completed call
    pre,         \* history: per thread, the shared state when its call began
    last,        \* history: per thread, the set_log_level call it returned from last
    expect,      \* history: lines the records accepted so far should have left
    plainOnly,   \* history: only init/set_log_level/log_level/plain emissions so far
    written,     \* history: number of lines handed to a sink (bounds the run)
    r_template,  \* rendering harness: the template under test
    r_record,    \* rendering harness: the record under test
    r_out,       \* rendering harness: the rendered line
    r_done,      \* rendering harness: whether r_out has been computed
    start_level  \* history: the maximum level the run started with

vars == <<logger, max_level, fs, stdout, stderr, pc, frame, result, pre, last,
          expect, plainOnly, written, r_template, r_record, r_out, r_done,
          start_level>>

sysvars == <<logger, max_level, fs, stdout, stderr, pc, frame, result, pre,
             last, expect, plainOnly, written>>

rvars == <<r_template, r_record, r_out, r_done, start_level>>

----------------------------------------------------------------------------
(* Bounds of the model. *)

\* lines written to the sinks per run
MaxLines == 2

\* pieces (placeholders or literal characters) of a template under test
MaxPieces == 3

----------------------------------------------------------------------------
(* log::LevelFilter and log::Level share one numeric order. *)

Off == 0
Error == 1
Warn == 2
Info == 3
Debug == 4
Trace == 5

LevelFilters == Off..Trace

Levels == Error..Trace

\* Level::to_level_filter keeps the number
to_level_filter(l) == l

\* Display for Level
LevelName(l) ==
    CASE l = Error -> <<"E","R","R","O","R">>
      [] l = Warn  -> <<"W","A","R","N">>
      [] l = Info  -> <<"I","N","F","O">>
      [] l = Debug -> <<"D","E","B","U","G">>
      [] l = Trace -> <<"T","R","A","C","E">>

----------------------------------------------------------------------------
(* Strings and str::replacen. *)

NL == <<"\n">>

Digits == <<"0","1","2","3","4","5","6","7","8","9">>

\* Display for u32
RECURSIVE ToDec(_)
ToDec(n) == IF n < 10 THEN <<Digits[n + 1]>>
            ELSE ToDec(n \div 10) \o <<Digits[(n % 10) + 1]>>

\* index of the first occurrence of pat in s, 0 when there is none
Find(s, pat) ==
    LET hits == {i \in 1..(Len(s) - Len(pat) + 1) :
                    SubSeq(s, i, i + Len(pat) - 1) = pat}
    IN  IF hits = {} THEN 0 ELSE CHOOSE i \in hits : \A j \in hits : i <= j

\* a faulty variant: every occurrence is replaced, whatever the count
RECURSIVE replace_all(_, _, _, _)
replace_all(s, pat, to, count) ==
    LET i == Find(s, pat)
    IN  IF i = 0 THEN s
        ELSE SubSeq(s, 1, i - 1) \o to
             \o replace_all(SubSeq(s, i + Len(pat), Len(s)), pat, to, count)

\* str::replacen(pat, to, count): the first count matches, left to right
RECURSIVE replacen(_, _, _, _)
replacen(s, pat, to, count) ==
    LET i == Find(s, pat)
    IN  IF count = 0 \/ i = 0 THEN s
        ELSE SubSeq(s, 1, i - 1) \o to
             \o replacen(SubSeq(s, i + Len(pat), Len(s)), pat, to, count - 1)

PhLevel == <<"{","l","e","v","e","l","}">>
PhMsg == <<"{","m","s","g","}">>
PhModpath == <<"{","m","o","d","p","a","t","h","}">>
PhFile == <<"{","f","i","l","e","}">>
PhLine == <<"{","l","i","n","e","}">>

\* Option<T>
None == [some |-> FALSE, val |-> <<>>]
Some(v) == [some |-> TRUE, val |-> v]
NoLine == [some |-> FALSE, val |-> 0]

unwrap_or(o, d) == IF o.some THEN o.val ELSE d

\* a log::Record
Record(level, msg, modpath, file, line) ==
    [level |-> level, msg |-> msg, module_path |-> modpath, file |-> file,
     line |-> line]

\* the replacen chain of Minilog::log
Format(fmt_string, record) ==
    LET s1 == replacen(fmt_string, PhLevel, LevelName(record.level), 1)
        s2 == replacen(s1, PhMsg, record.msg, 1)
        s3 == replacen(s2, PhModpath, unwrap_or(record.module_path, <<>>), 1)
        s4 == replacen(s3, PhFile, unwrap_or(record.file, <<>>), 1)
    IN  replacen(s4, PhLine, ToDec(unwrap_or(record.line, 0)), 1)

----------------------------------------------------------------------------
(* The process: logger cell, level cell, sinks, calling threads. *)

Threads == {"main", "worker"}

\* the facade's NopLogger, in place until set_boxed_logger succeeds
NoLogger == [installed |-> FALSE, logfile_name |-> "", fmt_string |-> <<>>]

\* struct Minilog
Minilog(logfile_name, fmt_string) ==
    [installed |-> TRUE, logfile_name |-> logfile_name, fmt_string |-> fmt_string]

Absent == [exists |-> FALSE, data |-> <<>>]
File(data) == [exists |-> TRUE, data |-> data]

DefaultLogfile == "logs.txt"
DefaultFmt == PhLevel \o <<":"," ">> \o PhMsg
DocFmt == PhLevel \o <<" ","-"," ">> \o PhMsg

\* sink descriptors handed to init, and the paths the file system tracks
SinkNames == {"stdout", "stderr", DefaultLogfile}

\* the (sink, template) pairs callers hand to init
InitArgs == {<<DefaultLogfile, DocFmt>>, <<"stdout", DocFmt>>,
             <<"stderr", DefaultFmt>>}
Msgs == {<<"a">>}

\* what the log! macro puts into the record at each call site
SiteRecord(op, level, msg) ==
    CASE op = "log_or_panic" ->
            Record(level, msg, Some(<<"m","i","n","i","l","o","g">>),
                   Some(<<"s","r","c","/","l","i","b",".","r","s">>),
                   [some |-> TRUE, val |-> 95])
      [] op \in {"log_upgrade", "log_upgrade_temp"} ->
            Record(level, msg, Some(<<"m","i","n","i","l","o","g">>),
                   Some(<<"s","r","c","/","l","i","b",".","r","s">>),
                   [some |-> TRUE, val |-> 127])
      [] OTHER ->
            Record(level, msg, Some(<<"a","p","p">>),
                   Some(<<"a",".","r","s">>), [some |-> TRUE, val |-> 7])

\* the arguments and locals a call keeps after its first step
NewFrame(op, level, msg) ==
    [op |-> op, level |-> level, msg |-> msg, logfile_name |-> "",
     fmt_string |-> <<>>, current_level |-> Off, log_msg |-> <<>>]

\* the frame of init: the Minilog it builds from its arguments
InitFrame(op, level, name, fmt) ==
    [NewFrame(op, level, <<>>) EXCEPT !.logfile_name = name, !.fmt_string = fmt]

NoFrame == NewFrame("none", Off, <<>>)

Res(tag, val) == [tag |-> tag, val |-> val]
NoResult == Res("none", Off)
Unit == Res("unit", Off)

\* the bytes a sink descriptor has received so far
SinkDataIn(name, files, out, err) ==
    IF name = "stdout" THEN out
    ELSE IF name = "stderr" THEN err
    ELSE files[name].data

SinkData == SinkDataIn(logger.logfile_name, fs, stdout, stderr)

\* positions of log_upgrade_temp after its save and before its restore is done
Window == {"upgrade", "raise", "macro", "log", "println", "eprintln", "open",
           "writeln_msg", "writeln_nl", "restore"}

\* another thread holds a saved level it has yet to restore
InWindow(t) ==
    \E u \in DOMAIN pc \ {t} :
        frame[u].op = "log_upgrade_temp" /\ pc[u] \in Window

\* the shared state as a call finds it, and the caller's preceding call
Snapshot(t) ==
    [logger |-> logger, max_level |-> max_level, fs |-> fs, stdout |-> stdout,
     stderr |-> stderr, prev |-> last[t], in_window |-> InWindow(t)]

NoLast == [op |-> "none", level |-> Off]

NoSnapshot ==
    [logger |-> NoLogger, max_level |-> Off,
     fs |-> [p \in SinkNames |-> Absent], stdout |-> <<>>, stderr |-> <<>>,
     prev |-> NoLast, in_window |-> FALSE]

\* a thread enters an operation
Begin(t, f) ==
    /\ pc[t] = "idle"
    /\ frame' = [frame EXCEPT ![t] = f]
    /\ pre' = [pre EXCEPT ![t] = Snapshot(t)]
    /\ last' = last

Goto(t, label) == pc' = [pc EXCEPT ![t] = label]

SetResult(t, res) == result' = [result EXCEPT ![t] = res]

\* the call is over: its outcome stays visible at "done" until ret
Return(t, res) ==
    /\ pc' = [pc EXCEPT ![t] = "done"]
    /\ result' = [result EXCEPT ![t] = res]

\* the caller moves on; only a set_log_level is remembered
ret(t) ==
    /\ pc[t] = "done"
    /\ pc' = [pc EXCEPT ![t] = "idle"]
    /\ last' = [last EXCEPT ![t] =
                  IF frame[t].op = "set_log_level"
                  THEN [op |-> frame[t].op, level |-> frame[t].level]
                  ELSE NoLast]
    /\ frame' = [frame EXCEPT ![t] = NoFrame]
    /\ result' = [result EXCEPT ![t] = NoResult]
    /\ pre' = [pre EXCEPT ![t] = NoSnapshot]
    /\ UNCHANGED <<logger, max_level, fs, stdout, stderr, expect, plainOnly,
                   written, rvars>>

\* an emitting library call leaves the plain-emission history behind
LeavePlain ==
    /\ written < MaxLines
    /\ plainOnly' = FALSE
    /\ expect' = <<>>

----------------------------------------------------------------------------
(* Initial state: nothing installed, level Off, the log file absent or left *)
(* over from an earlier run.                                                *)

OldData == <<"o", "\n">>

InitSys ==
    /\ logger = NoLogger
    /\ max_level = Off
    /\ fs \in {[p \in SinkNames |-> Absent],
               [p \in SinkNames |-> IF p = DefaultLogfile THEN File(OldData)
                                     ELSE Absent]}
    /\ stdout = <<>>
    /\ stderr = <<>>
    /\ pc = [t \in Threads |-> "idle"]
    /\ frame = [t \in Threads |-> NoFrame]
    /\ result = [t \in Threads |-> NoResult]
    /\ pre = [t \in Threads |-> NoSnapshot]
    /\ last = [t \in Threads |-> NoLast]
    /\ expect = <<>>
    /\ plainOnly = TRUE
    /\ written = 0
    /\ start_level = Off

RenderIdle ==
    /\ r_template = <<>>
    /\ r_record = Record(Error, <<>>, None, None, NoLine)
    /\ r_out = <<>>
    /\ r_done = FALSE

Init == InitSys /\ RenderIdle

----------------------------------------------------------------------------
(* Minilog::init, init_default, set_log_level, log_level. *)

\* a faulty variant: the level is set whatever set_boxed_logger returned
map_always(ok) == TRUE

\* a faulty variant: the level is never set
map_never(ok) == FALSE

\* Result::map: the closure runs on Ok only
map_applies(ok) == ok

\* a faulty variant: set_boxed_logger replaces a logger that is already set
InstallLoggerReplacing(t, name, fmt) ==
    /\ logger' = Minilog(name, fmt)
    /\ expect' = expect
    /\ result' = [result EXCEPT ![t] = Res("Ok", Off)]
    /\ Goto(t, "init_map")
    /\ UNCHANGED <<max_level, fs, stdout, stderr, plainOnly, written, rvars>>

\* set_boxed_logger, then .map(|()| set_max_level(loglevel))
InstallLogger(t, name, fmt) ==
    LET ok == ~logger.installed
    IN  /\ logger' = IF ok THEN Minilog(name, fmt) ELSE logger
        /\ expect' = IF ok /\ plainOnly
                     THEN SinkDataIn(name, fs, stdout, stderr) ELSE expect
        /\ result' = [result EXCEPT ![t] =
                        IF ok THEN Res("Ok", Off)
                        ELSE Res("AlreadyInitialized", Off)]
        /\ IF map_applies(ok) THEN Goto(t, "init_map") ELSE Goto(t, "done")
        /\ UNCHANGED <<max_level, fs, stdout, stderr, plainOnly, written, rvars>>

init(t, loglevel, logfile_name, fmt_string) ==
    /\ Begin(t, InitFrame("init", loglevel, logfile_name, fmt_string))
    /\ InstallLogger(t, logfile_name, fmt_string)

init_default(t) ==
    /\ Begin(t, InitFrame("init_default", Trace, DefaultLogfile, DefaultFmt))
    /\ InstallLogger(t, DefaultLogfile, DefaultFmt)

\* the closure of .map: set_max_level(loglevel)
init_map(t) ==
    /\ pc[t] = "init_map"
    /\ max_level' = frame[t].level
    /\ Goto(t, "done")
    /\ UNCHANGED <<logger, fs, stdout, stderr, frame, result, pre, last, expect,
                   plainOnly, written, rvars>>

set_log_level(t, loglevel) ==
    /\ Begin(t, NewFrame("set_log_level", loglevel, <<>>))
    /\ max_level' = loglevel
    /\ Return(t, Unit)
    /\ UNCHANGED <<logger, fs, stdout, stderr, expect, plainOnly, written, rvars>>

\* a faulty variant: Off is reported as a level
to_level_total(filter) == Res("Some", filter)

\* LevelFilter::to_level
to_level(filter) == IF filter = Off THEN Res("None", Off) ELSE Res("Some", filter)

log_level(t) ==
    /\ Begin(t, NewFrame("log_level", Off, <<>>))
    /\ Return(t, to_level(max_level))
    /\ UNCHANGED <<logger, max_level, fs, stdout, stderr, expect, plainOnly,
                   written, rvars>>

----------------------------------------------------------------------------
(* Emission: the log! macro, Minilog::enabled, Minilog::log and the sinks. *)

\* a faulty variant: a record at exactly the maximum is dropped
enabled_strict(level) == level < max_level

\* Minilog::enabled
enabled(level) == level <= max_level

\* the log! macro's own filter, before the logger is asked
macro_enabled(level) == level <= max_level

\* a faulty variant: log_upgrade_temp returns without restoring the level
AfterLog_no_restore(t) == Goto(t, "done")

\* where control goes when Minilog::log (or the macro) is done
AfterLog(t) ==
    IF frame[t].op = "log_upgrade_temp" THEN Goto(t, "restore")
    ELSE Goto(t, "done")

\* a plain emission at a call site: log!(level, "{}", msg)
emit(t, level, msg) ==
    /\ Begin(t, NewFrame("emit", level, msg))
    /\ written < MaxLines
    /\ expect' = IF plainOnly /\ logger.installed /\ level <= max_level
                 THEN expect
                      \o Format(logger.fmt_string, SiteRecord("emit", level, msg))
                      \o NL
                 ELSE expect
    /\ SetResult(t, Unit)
    /\ IF macro_enabled(level) THEN Goto(t, "log") ELSE Goto(t, "done")
    /\ UNCHANGED <<logger, max_level, fs, stdout, stderr, plainOnly, written,
                   rvars>>

\* the log! macro inside log_or_panic and log_upgrade
log_macro(t) ==
    /\ pc[t] = "macro"
    /\ IF macro_enabled(frame[t].level) THEN Goto(t, "log") ELSE AfterLog(t)
    /\ UNCHANGED <<logger, max_level, fs, stdout, stderr, frame, result, pre,
                   last, expect, plainOnly, written, rvars>>

\* a faulty variant: the reserved names are opened as files
sink_dispatch_file(name) == "open"

\* the sink dispatch of Minilog::log: where the line goes
sink_dispatch(name) ==
    IF name = "stdout" THEN "println"
    ELSE IF name = "stderr" THEN "eprintln"
    ELSE "open"

\* Minilog::log up to the sink dispatch; the NopLogger does nothing
log(t) ==
    /\ pc[t] = "log"
    /\ IF logger.installed /\ enabled(frame[t].level)
       THEN /\ frame' = [frame EXCEPT ![t].log_msg =
                           Format(logger.fmt_string,
                                  SiteRecord(frame[t].op, frame[t].level,
                                             frame[t].msg))]
            /\ Goto(t, sink_dispatch(logger.logfile_name))
       ELSE /\ frame' = frame
            /\ AfterLog(t)
    /\ UNCHANGED <<logger, max_level, fs, stdout, stderr, result, pre, last, expect,
                   plainOnly, written, rvars>>

\* println!("{}", log_msg): one locked write of the line and its newline
println(t) ==
    /\ pc[t] = "println"
    /\ stdout' = stdout \o frame[t].log_msg \o NL
    /\ written' = written + 1
    /\ AfterLog(t)
    /\ UNCHANGED <<logger, max_level, fs, stderr, frame, result, pre, last, expect,
                   plainOnly, rvars>>

\* eprintln!("{}", log_msg)
eprintln(t) ==
    /\ pc[t] = "eprintln"
    /\ stderr' = stderr \o frame[t].log_msg \o NL
    /\ written' = written + 1
    /\ AfterLog(t)
    /\ UNCHANGED <<logger, max_level, fs, stdout, frame, result, pre, last, expect,
                   plainOnly, rvars>>

\* a faulty variant: the file is truncated when it is opened
open_truncate(f) == File(<<>>)

\* OpenOptions read+append+create: the contents stay, a missing file is made
open_append_create(f) == IF f.exists THEN f ELSE File(<<>>)

open(t) ==
    /\ pc[t] = "open"
    /\ fs' = [fs EXCEPT ![logger.logfile_name] = open_append_create(@)]
    /\ Goto(t, "writeln_msg")
    /\ UNCHANGED <<logger, max_level, stdout, stderr, frame, result, pre,
                   last, expect, plainOnly, written, rvars>>

\* writeln!(file, "{}", log_msg): the argument is written first ...
writeln_msg(t) ==
    /\ pc[t] = "writeln_msg"
    /\ fs' = [fs EXCEPT ![logger.logfile_name].data = @ \o frame[t].log_msg]
    /\ written' = written + 1
    /\ Goto(t, "writeln_nl")
    /\ UNCHANGED <<logger, max_level, stdout, stderr, frame, result, pre,
                   last, expect, plainOnly, rvars>>

\* ... and the newline of the format string second
writeln_nl(t) ==
    /\ pc[t] = "writeln_nl"
    /\ fs' = [fs EXCEPT ![logger.logfile_name].data = @ \o NL]
    /\ AfterLog(t)
    /\ UNCHANGED <<logger, max_level, stdout, stderr, frame, result, pre,
                   last, expect, plainOnly, written, rvars>>

\* the sink cannot be opened or written: the panic unwinds the whole call
sink_fail(t) ==
    /\ pc[t] \in {"println", "eprintln", "open", "writeln_msg", "writeln_nl"}
    /\ Return(t, Res("SinkIoError", Off))
    /\ plainOnly' = FALSE
    /\ expect' = <<>>
    /\ UNCHANGED <<logger, max_level, fs, stdout, stderr, frame, pre, last, written,
                   rvars>>

----------------------------------------------------------------------------
(* log_or_panic, log_upgrade, log_upgrade_temp. *)

\* a faulty variant: a record at exactly the maximum is refused
or_panic_too_low_eq(loglevel) == loglevel >= max_level

\* log_or_panic: if loglevel > max_level()
or_panic_too_low(loglevel) == loglevel > max_level

log_or_panic(t, loglevel, msg) ==
    /\ Begin(t, NewFrame("log_or_panic", loglevel, msg))
    /\ LeavePlain
    /\ IF or_panic_too_low(loglevel)
       THEN Return(t, Res("LevelTooLow", Off))
       ELSE SetResult(t, Unit) /\ Goto(t, "macro")
    /\ UNCHANGED <<logger, max_level, fs, stdout, stderr, written, rvars>>

\* a faulty variant: the maximum is set to the record's level every time
upgrade_needed_always(loglevel) == TRUE

\* log_upgrade: if loglevel > max_level()
upgrade_needed(loglevel) == loglevel > max_level

\* the first statement of log_upgrade
UpgradeEnter(t) ==
    IF upgrade_needed(frame'[t].level) THEN Goto(t, "raise")
    ELSE Goto(t, "macro")

log_upgrade(t, loglevel, msg) ==
    /\ Begin(t, NewFrame("log_upgrade", loglevel, msg))
    /\ LeavePlain
    /\ SetResult(t, Unit)
    /\ UpgradeEnter(t)
    /\ UNCHANGED <<logger, max_level, fs, stdout, stderr, written, rvars>>

\* set_max_level(loglevel.to_level_filter())
raise(t) ==
    /\ pc[t] = "raise"
    /\ max_level' = to_level_filter(frame[t].level)
    /\ Goto(t, "macro")
    /\ UNCHANGED <<logger, fs, stdout, stderr, frame, result, pre, last, expect,
                   plainOnly, written, rvars>>

\* a faulty variant: the escalation branch is taken for enabled levels too
temp_needed_eq(loglevel) == loglevel >= max_level

\* log_upgrade_temp: if loglevel > max_level()
temp_needed(loglevel) == loglevel > max_level

log_upgrade_temp(t, loglevel, msg) ==
    /\ Begin(t, NewFrame("log_upgrade_temp", loglevel, msg))
    /\ LeavePlain
    /\ SetResult(t, Unit)
    /\ IF temp_needed(loglevel) THEN Goto(t, "save") ELSE Goto(t, "done")
    /\ UNCHANGED <<logger, max_level, fs, stdout, stderr, written, rvars>>

\* a faulty variant: the level to restore is taken to be the record's level
saved_level_wrong(t) == to_level_filter(frame[t].level)

\* let current_level = max_level();
saved_level(t) == max_level

save(t) ==
    /\ pc[t] = "save"
    /\ frame' = [frame EXCEPT ![t].current_level = saved_level(t)]
    /\ Goto(t, "upgrade")
    /\ UNCHANGED <<logger, max_level, fs, stdout, stderr, result, pre, last, expect,
                   plainOnly, written, rvars>>

\* Minilog::log_upgrade(loglevel, msg), called from log_upgrade_temp
upgrade(t) ==
    /\ pc[t] = "upgrade"
    /\ frame' = frame
    /\ UpgradeEnter(t)
    /\ UNCHANGED <<logger, max_level, fs, stdout, stderr, result, pre, last, expect,
                   plainOnly, written, rvars>>

\* set_max_level(current_level)
restore(t) ==
    /\ pc[t] = "restore"
    /\ max_level' = frame[t].current_level
    /\ Goto(t, "done")
    /\ UNCHANGED <<logger, fs, stdout, stderr, frame, result, pre, last, expect,
                   plainOnly, written, rvars>>

----------------------------------------------------------------------------
(* The rendering harness: Format applied to a template and a record. *)

Placeholders == {PhLevel, PhMsg, PhModpath, PhFile, PhLine}

\* the pieces templates under test are built from
Pieces == Placeholders \cup {<<"a">>, <<" ">>}

RECURSIVE Flatten(_)
Flatten(ps) == IF ps = <<>> THEN <<>> ELSE Head(ps) \o Flatten(Tail(ps))

RenderTemplates ==
    {Flatten(ps) : ps \in UNION {[1..n -> Pieces] : n \in 0..MaxPieces}}

RenderRecords ==
    {Record(l, m, mp, f, ln) :
        l \in {Error, Trace}, m \in {<<>>, <<"m">>},
        mp \in {None, Some(<<"p">>)}, f \in {None, Some(<<"f">>)},
        ln \in {NoLine, [some |-> TRUE, val |-> 0], [some |-> TRUE, val |-> 12]}}

InitRender ==
    /\ InitSys
    /\ r_template \in RenderTemplates
    /\ r_record \in RenderRecords
    /\ r_out = <<>>
    /\ r_done = FALSE

\* records whose message text is itself placeholder text
NestedRecords ==
    {Record(Error, m, Some(<<"p">>), f, ln) :
        m \in {PhModpath, PhFile, PhLine, <<"m">>},
        f \in {None, Some(<<"f">>)},
        ln \in {NoLine, [some |-> TRUE, val |-> 12]}}

InitNested ==
    /\ InitSys
    /\ r_template \in RenderTemplates
    /\ r_record \in NestedRecords
    /\ r_out = <<>>
    /\ r_done = FALSE

render ==
    /\ ~r_done
    /\ r_out' = Format(r_template, r_record)
    /\ r_done' = TRUE
    /\ UNCHANGED <<sysvars, r_template, r_record, start_level>>

----------------------------------------------------------------------------
(* Specifications. *)

Step(t) ==
    \/ \E l \in LevelFilters, a \in InitArgs : init(t, l, a[1], a[2])
    \/ init_default(t)
    \/ init_map(t)
    \/ \E l \in LevelFilters : set_log_level(t, l)
    \/ log_level(t)
    \/ \E l \in Levels, m \in Msgs : emit(t, l, m)
    \/ log_macro(t)
    \/ log(t)
    \/ println(t)
    \/ eprintln(t)
    \/ open(t)
    \/ writeln_msg(t)
    \/ writeln_nl(t)
    \/ \E l \in Levels, m \in Msgs : log_or_panic(t, l, m)
    \/ \E l \in Levels, m \in Msgs : log_upgrade(t, l, m)
    \/ raise(t)
    \/ \E l \in Levels, m \in Msgs : log_upgrade_temp(t, l, m)
    \/ save(t)
    \/ upgrade(t)
    \/ restore(t)
    \/ ret(t)

\* a single caller, sinks that accept every write
Next == Step("main")

Spec == Init /\ [][Next]_vars

\* a single caller, sinks that may refuse a write
NextIO == Step("main") \/ sink_fail("main")

SpecIO == Init /\ [][NextIO]_vars

\* the template formatter on its own
NextRender == render

SpecRender == InitRender /\ [][NextRender]_vars

SpecNested == InitNested /\ [][NextRender]_vars

\* the levels the concurrent runs start at, and the severities their calls use
StartLevels == {Off, Info}

RaceLevels == {Warn, Trace}

\* the levels a concurrent set_log_level sets
SetLevels == {Error, Debug}

\* a process in which init has succeeded and returned: any configuration,
\* nothing written yet
InitRunning ==
    /\ \E a \in InitArgs : logger = Minilog(a[1], a[2])
    /\ max_level \in StartLevels
    /\ start_level = max_level
    /\ fs = [p \in SinkNames |-> Absent]
    /\ stdout = <<>>
    /\ stderr = <<>>
    /\ pc = [t \in Threads |-> "idle"]
    /\ frame = [t \in Threads |-> NoFrame]
    /\ result = [t \in Threads |-> NoResult]
    /\ pre = [t \in Threads |-> NoSnapshot]
    /\ last = [t \in Threads |-> NoLast]
    /\ expect = <<>>
    /\ plainOnly = TRUE
    /\ written = 0
    /\ RenderIdle

\* the steps of Minilog::log behind the macro
LogSteps(t) ==
    \/ log(t)
    \/ println(t)
    \/ eprintln(t)
    \/ open(t)
    \/ writeln_msg(t)
    \/ writeln_nl(t)

\* a thread that only calls log_upgrade_temp
TempSteps(t) ==
    \/ \E l \in RaceLevels, m \in Msgs : log_upgrade_temp(t, l, m)
    \/ save(t)
    \/ upgrade(t)
    \/ raise(t)
    \/ log_macro(t)
    \/ LogSteps(t)
    \/ restore(t)
    \/ ret(t)

\* a thread that only calls set_log_level
SetLevelSteps(t) ==
    \/ \E l \in SetLevels : set_log_level(t, l)
    \/ ret(t)

\* concurrent setup: every thread calls init or init_default
NextSetup ==
    \E t \in Threads :
        \/ \E l \in LevelFilters, a \in InitArgs : init(t, l, a[1], a[2])
        \/ init_default(t)
        \/ init_map(t)
        \/ ret(t)

SpecSetup == Init /\ [][NextSetup]_vars

\* one thread escalates temporarily while another sets the level
NextRace == TempSteps("main") \/ SetLevelSteps("worker")

SpecRace == InitRunning /\ [][NextRace]_vars

\* every thread escalates temporarily
NextTemps == \E t \in Threads : TempSteps(t)

SpecTemps == InitRunning /\ [][NextTemps]_vars

\* one thread calls log_or_panic while another sets the level
NextOrPanic ==
    \/ \E l \in RaceLevels, m \in Msgs : log_or_panic("main", l, m)
    \/ log_macro("main")
    \/ LogSteps("main")
    \/ ret("main")
    \/ SetLevelSteps("worker")

SpecOrPanic == InitRunning /\ [][NextOrPanic]_vars

\* one thread escalates temporarily while another emits plain records
NextLeak ==
    \/ TempSteps("main")
    \/ \E l \in RaceLevels, m \in Msgs : emit("worker", l, m)
    \/ LogSteps("worker")
    \/ ret("worker")

SpecLeak == InitRunning /\ [][NextLeak]_vars

----------------------------------------------------------------------------
(* Vocabulary of the properties: a call that has just returned ("done"),   *)
(* compared with the state it started from (pre).                           *)

Done(t, op) == pc[t] = "done" /\ frame[t].op = op

\* the call started with a logger installed
Installed(t) == pre[t].logger.installed

\* the line the call's record renders to, with its newline
LineOf(t) ==
    Format(pre[t].logger.fmt_string,
           SiteRecord(frame[t].op, frame[t].level, frame[t].msg)) \o NL

\* no sink has been touched since the call began
Untouched(t) ==
    /\ fs = pre[t].fs
    /\ stdout = pre[t].stdout
    /\ stderr = pre[t].stderr

\* since the call began, its line was appended once to the configured sink,
\* and nothing else was written anywhere
WroteOneLine(t) ==
    LET name == pre[t].logger.logfile_name
    IN  /\ stdout = IF name = "stdout" THEN pre[t].stdout \o LineOf(t)
                    ELSE pre[t].stdout
        /\ stderr = IF name = "stderr" THEN pre[t].stderr \o LineOf(t)
                    ELSE pre[t].stderr
        /\ fs = IF name \in {"stdout", "stderr"} THEN pre[t].fs
                ELSE [pre[t].fs EXCEPT ![name] = File(@.data \o LineOf(t))]

LevelKept(t) == max_level = pre[t].max_level

ConfigKept(t) == logger = pre[t].logger

MaxOf(a, b) == IF a >= b THEN a ELSE b

----------------------------------------------------------------------------
\* C1: with a logger installed, a plain emission of a record at severity L
\* writes its line to the sink if and only if L <= the maximum severity at
\* the time of the call; otherwise (in particular at maximum Off) nothing is
\* written.
C1_LevelGating ==
    \A t \in Threads :
        (Done(t, "emit") /\ Installed(t)) =>
            IF frame[t].level <= pre[t].max_level
            THEN WroteOneLine(t)
            ELSE Untouched(t)

\* a record at exactly the maximum severity has been written
C1_Witness ==
    /\ Done("main", "emit")
    /\ Installed("main")
    /\ frame["main"].level = Info
    /\ pre["main"].max_level = Info
    /\ WroteOneLine("main")

\* C2: once a logger is installed, every later init or init_default returns
\* AlreadyInitialized and leaves the maximum severity, the sink and the
\* template as they were; the call's level argument is not applied.
C2_SecondInitRejected ==
    \A t \in Threads :
        ((Done(t, "init") \/ Done(t, "init_default")) /\ Installed(t)) =>
            /\ result[t] = Res("AlreadyInitialized", Off)
            /\ LevelKept(t)
            /\ ConfigKept(t)

\* a second init with another level has been rejected
C2_Witness ==
    /\ Done("main", "init")
    /\ Installed("main")
    /\ frame["main"].level = Trace
    /\ pre["main"].max_level = Info
    /\ max_level = Info

\* C3: with a file sink and a single caller, after any sequence of plain
\* emissions and set_log_level calls the file holds what it held before,
\* followed in call order by one line per record that was enabled when it was
\* emitted; the file exists as soon as one line was written.
C3_FileIsAppendOnlyLog ==
    (/\ plainOnly
     /\ logger.installed
     /\ logger.logfile_name \notin {"stdout", "stderr"}
     /\ \A t \in Threads : pc[t] \in {"idle", "done"}) =>
        /\ fs[logger.logfile_name].data = expect
        /\ written > 0 => fs[logger.logfile_name].exists

\* two records have been appended, in call order, behind the old contents
C3_Witness ==
    /\ plainOnly
    /\ logger = Minilog(DefaultLogfile, DefaultFmt)
    /\ Done("main", "emit")
    /\ fs[DefaultLogfile].data =
          OldData \o <<"W","A","R","N",":"," ","a","\n">>
                  \o <<"E","R","R","O","R",":"," ","a","\n">>

\* C4: a failed sink write during any emitting operation leaves the maximum
\* severity and the configuration as they were before the operation began.
C4_FailedWriteKeepsState ==
    \A t \in Threads :
        (pc[t] = "done" /\ result[t].tag = "SinkIoError") =>
            LevelKept(t) /\ ConfigKept(t)

\* C4, its last clause alone: a log_upgrade_temp whose write fails does not
\* leave the maximum at the escalated level.
C4_FailedTempRestores ==
    \A t \in Threads :
        (Done(t, "log_upgrade_temp") /\ result[t].tag = "SinkIoError") =>
            LevelKept(t)

\* C5: with a logger installed and a single caller, log_upgrade_temp(L, msg)
\* with L above the maximum M writes exactly one line for (L, msg), and when
\* it returns the maximum is M again, so log_level() would report M.
C5_TempEscalationReverts ==
    \A t \in Threads :
        (/\ Done(t, "log_upgrade_temp")
         /\ Installed(t)
         /\ frame[t].level > pre[t].max_level) =>
            /\ WroteOneLine(t)
            /\ LevelKept(t)
            /\ to_level(max_level) = to_level(pre[t].max_level)

\* a Trace record was escalated over a maximum of Info and written
C5_Witness ==
    /\ Done("main", "log_upgrade_temp")
    /\ Installed("main")
    /\ frame["main"].level = Trace
    /\ pre["main"].max_level = Info
    /\ max_level = Info
    /\ WroteOneLine("main")

C7_UpgradeRaisesAndWrites ==
    \A t \in Threads :
        (Done(t, "log_upgrade") /\ Installed(t)) =>
            /\ max_level = MaxOf(pre[t].max_level, frame[t].level)
            /\ max_level >= pre[t].max_level
            /\ WroteOneLine(t)

\* a Debug record raised a maximum of Warn for good
C7_Witness ==
    /\ Done("main", "log_upgrade")
    /\ Installed("main")
    /\ frame["main"].level = Debug
    /\ pre["main"].max_level = Warn
    /\ max_level = Debug
    /\ WroteOneLine("main")

\* C8: with a logger installed and a single caller, log_or_panic(L, msg)
\* with L above the maximum fails with LevelTooLow, writes nothing and changes
\* nothing; otherwise it writes exactly one line and keeps the maximum.
C8_LogOrPanic ==
    \A t \in Threads :
        (Done(t, "log_or_panic") /\ Installed(t)) =>
            IF frame[t].level > pre[t].max_level
            THEN /\ result[t] = Res("LevelTooLow", Off)
                 /\ Untouched(t)
                 /\ LevelKept(t)
                 /\ ConfigKept(t)
            ELSE /\ result[t] = Unit
                 /\ WroteOneLine(t)
                 /\ LevelKept(t)

\* a Trace record was refused under a maximum of Info
C8_Witness ==
    /\ Done("main", "log_or_panic")
    /\ Installed("main")
    /\ frame["main"].level = Trace
    /\ pre["main"].max_level = Info
    /\ result["main"].tag = "LevelTooLow"

\* C9: log_level() returns the empty result exactly when the maximum is Off
\* and the maximum otherwise; right after set_log_level(X) by the same caller
\* it returns X, or the empty result for X = Off; it changes no state.
C9_LogLevelReadsMaximum ==
    \A t \in Threads :
        Done(t, "log_level") =>
            /\ (result[t].tag = "None") <=> (pre[t].max_level = Off)
            /\ pre[t].max_level # Off =>
                  result[t] = Res("Some", pre[t].max_level)
            /\ pre[t].prev.op = "set_log_level" =>
                  result[t] = IF pre[t].prev.level = Off THEN Res("None", Off)
                              ELSE Res("Some", pre[t].prev.level)
            /\ LevelKept(t)
            /\ ConfigKept(t)
            /\ Untouched(t)

\* log_level() right after set_log_level(Off) returned the empty result
C9_Witness ==
    /\ Done("main", "log_level")
    /\ pre["main"].prev = [op |-> "set_log_level", level |-> Off]
    /\ result["main"].tag = "None"

\* the text a placeholder stands for
FieldText(ph, record) ==
    CASE ph = PhLevel -> LevelName(record.level)
      [] ph = PhMsg -> record.msg
      [] ph = PhModpath ->
            IF record.module_path.some THEN record.module_path.val ELSE <<>>
      [] ph = PhFile -> IF record.file.some THEN record.file.val ELSE <<>>
      [] ph = PhLine -> IF record.line.some THEN ToDec(record.line.val)
                        ELSE <<"0">>

\* one pass over the template: a placeholder met for the first time is
\* replaced by its field, everything else is copied
RECURSIVE FirstOnly(_, _, _)
FirstOnly(s, seen, record) ==
    IF s = <<>> THEN <<>>
    ELSE LET here == {ph \in Placeholders \ seen :
                         /\ Len(ph) <= Len(s)
                         /\ SubSeq(s, 1, Len(ph)) = ph}
         IN  IF here = {} THEN <<Head(s)>> \o FirstOnly(Tail(s), seen, record)
             ELSE LET ph == CHOOSE x \in here : TRUE
                  IN  FieldText(ph, record)
                      \o FirstOnly(SubSeq(s, Len(ph) + 1, Len(s)),
                                   seen \cup {ph}, record)

\* C10: rendering replaces only the first occurrence of each placeholder by
\* the record's field (empty text for a missing module path or file, 0 for a
\* missing line); later occurrences, and all other template text, stay as
\* they are.
C10_FirstOccurrenceOnly ==
    r_done => r_out = FirstOnly(r_template, {}, r_record)

\* a template with {line} twice and a record without file and line
C10_Witness ==
    /\ r_done
    /\ r_template = PhLine \o PhFile \o PhLine
    /\ ~r_record.line.some
    /\ ~r_record.file.some
    /\ r_out = <<"0">> \o PhLine

----------------------------------------------------------------------------
\* number of newlines in a byte sequence
RECURSIVE Lines(_)
Lines(data) ==
    IF data = <<>> THEN 0
    ELSE (IF Head(data) = "\n" THEN 1 ELSE 0) + Lines(Tail(data))

\* C11: with the sink descriptor "stdout" (resp. "stderr") every line handed
\* to a sink is in the standard output (resp. error) stream and nothing else
\* is written; no run ever creates a file named stdout or stderr; any other
\* descriptor is a file path and leaves both standard streams empty.
C11_ReservedSinkNames ==
    /\ ~fs["stdout"].exists
    /\ ~fs["stderr"].exists
    /\ (logger.installed /\ \A t \in Threads : pc[t] \in {"idle", "done"}) =>
          CASE logger.logfile_name = "stdout" ->
                  /\ Lines(stdout) = written
                  /\ stderr = <<>>
                  /\ fs[DefaultLogfile].data \in {<<>>, OldData}
            [] logger.logfile_name = "stderr" ->
                  /\ Lines(stderr) = written
                  /\ stdout = <<>>
                  /\ fs[DefaultLogfile].data \in {<<>>, OldData}
            [] OTHER ->
                  /\ stdout = <<>>
                  /\ stderr = <<>>
                  /\ Lines(fs[logger.logfile_name].data)
                        \in {written, written + Lines(OldData)}

\* two records went to the standard output stream and no file was made
C11_Witness ==
    /\ logger.installed
    /\ logger.logfile_name = "stdout"
    /\ pc["main"] = "done"
    /\ written = 2
    /\ Lines(stdout) = 2
    /\ ~fs["stdout"].exists

\* what init(level, name, fmt) must have done when it returns
InitOutcome(t, level, name, fmt) ==
    IF Installed(t)
    THEN /\ result[t] = Res("AlreadyInitialized", Off)
         /\ LevelKept(t)
         /\ ConfigKept(t)
    ELSE /\ result[t] = Res("Ok", Off)
         /\ logger = [installed |-> TRUE, logfile_name |-> name,
                      fmt_string |-> fmt]
         /\ max_level = level

\* C12: a successful init(level, sink, template) leaves exactly (sink,
\* template) installed and the maximum at level; init_default() has the
\* outcome and resulting state of init(Trace, "logs.txt", "{level}: {msg}").
C12_InitInstalls ==
    \A t \in Threads :
        /\ Done(t, "init") =>
              InitOutcome(t, frame[t].level, frame[t].logfile_name,
                          frame[t].fmt_string)
        /\ Done(t, "init_default") =>
              InitOutcome(t, Trace, "logs.txt",
                          <<"{","l","e","v","e","l","}",":"," ",
                            "{","m","s","g","}">>)

\* init_default() has installed the defaults on a fresh process
C12_Witness ==
    /\ Done("main", "init_default")
    /\ ~Installed("main")
    /\ result["main"].tag = "Ok"
    /\ logger.logfile_name = "logs.txt"
    /\ max_level = Trace

\* every thread has returned from a call to init or init_default
AllSetupDone ==
    \A t \in Threads :
        pc[t] = "done" /\ frame[t].op \in {"init", "init_default"}

\* the level a setup call asked for
SetupLevel(t) == IF frame[t].op = "init_default" THEN Trace ELSE frame[t].level

\* C13: when several threads call init/init_default concurrently, at most
\* one call succeeds and every other call fails with AlreadyInitialized;
\* exactly one succeeds when a call started on an uninitialised process; and
\* once all calls have returned, the installed sink, the template and the
\* maximum severity are those of the successful call.
C13_ConcurrentSetup ==
    AllSetupDone =>
        /\ \A t \in Threads :
              result[t] \in {Res("Ok", Off), Res("AlreadyInitialized", Off)}
        /\ Cardinality({t \in Threads : result[t].tag = "Ok"}) <= 1
        /\ (\E t \in Threads : ~Installed(t)) =>
              \E w \in Threads : result[w].tag = "Ok"
        /\ \A w \in Threads :
              result[w].tag = "Ok" =>
                 /\ logger = Minilog(frame[w].logfile_name, frame[w].fmt_string)
                 /\ max_level = SetupLevel(w)

\* two overlapping calls with different arguments: main's init(Info, ...) won,
\* the worker's init(Trace, ...) ran after main's logger was installed and
\* before main's level was set, and failed
C13_Witness ==
    /\ Done("main", "init")
    /\ Done("worker", "init")
    /\ ~Installed("main")
    /\ Installed("worker")
    /\ pre["worker"].max_level = Off
    /\ result["main"].tag = "Ok"
    /\ result["worker"].tag = "AlreadyInitialized"
    /\ frame["main"].level = Info
    /\ frame["worker"].level = Trace
    /\ frame["worker"].logfile_name # frame["main"].logfile_name
    /\ logger.logfile_name = frame["main"].logfile_name
    /\ max_level = Info

\* C14: when log_upgrade_temp(L, msg) with L not enabled has returned and a
\* set_log_level(X) of another thread took effect between its save and its
\* restore, the maximum severity is the value the escalation saved: the
\* restore was the last write and the update to X is lost.
C14_RestoreOverwritesSetLevel ==
    \A t, u \in Threads :
        (/\ t # u
         /\ Done(t, "log_upgrade_temp")
         /\ frame[t].level > pre[t].max_level
         /\ Done(u, "set_log_level")
         /\ pre[u].in_window) =>
            max_level = frame[t].current_level

\* the interleaving: from Info, log_upgrade_temp(Trace) saved Info, the
\* worker's set_log_level(Debug) landed before the restore, and with both
\* calls returned the maximum is Info and not Debug
C14_Witness ==
    /\ Done("main", "log_upgrade_temp")
    /\ frame["main"].level = Trace
    /\ pre["main"].max_level = Info
    /\ frame["main"].current_level = Info
    /\ Done("worker", "set_log_level")
    /\ frame["worker"].level = Debug
    /\ pre["worker"].in_window
    /\ max_level = Info

\* C15: when the only operations are log_upgrade_temp calls of concurrent
\* threads, the maximum severity is the starting one once all of them have
\* returned.
C15_TempIsTemporary ==
    (\A t \in Threads : pc[t] \in {"idle", "done"}) => max_level = start_level

\* C16: a log_or_panic call that has returned has either failed with
\* LevelTooLow or written exactly one line for its record, also when another
\* thread sets the level between its check and its emission.
C16_NoSilentDrop ==
    \A t \in Threads :
        Done(t, "log_or_panic") =>
            \/ result[t].tag = "LevelTooLow"
            \/ WroteOneLine(t)

\* C17: when a log_upgrade_temp that escalated has returned, the only line
\* written since it began is its own record, also when another thread made a
\* plain emission at a severity above the starting maximum meanwhile.
C17_EscalationDoesNotLeak ==
    \A t, u \in Threads :
        (/\ t # u
         /\ Done(t, "log_upgrade_temp")
         /\ frame[t].level > pre[t].max_level
         /\ Done(u, "emit")
         /\ frame[u].level > start_level) =>
            WroteOneLine(t)

\* C18: also for a record whose message text is placeholder text, the
\* rendered line is the template with its own first {level}, {msg},
\* {modpath}, {file} and {line} replaced by the record's fields: the message
\* stands verbatim where the template's first {msg} was, and text brought in
\* by a substitution is neither substituted nor takes a later placeholder's
\* replacement.
C18_OwnPlaceholdersOnly ==
    (r_done /\ r_record.msg \in Placeholders) =>
        r_out = FirstOnly(r_template, {}, r_record)

\* C19: once a logger is installed, no step changes the sink descriptor or
\* the template; the maximum severity changes only in a step of
\* set_log_level, of an init or init_default that succeeded, of log_upgrade
\* or of log_upgrade_temp.
C19_ConfigImmutable ==
    [][/\ logger.installed => logger' = logger
       /\ max_level' # max_level =>
             \E t \in Threads :
                /\ pc'[t] # pc[t] \/ frame'[t] # frame[t]
                /\ \/ frame'[t].op \in {"set_log_level", "log_upgrade",
                                        "log_upgrade_temp"}
                   \/ /\ frame'[t].op \in {"init", "init_default"}
                      /\ result'[t].tag = "Ok"]_vars

\* a log_upgrade has raised the maximum and the configuration is as before
C19_Witness ==
    /\ Done("main", "log_upgrade")
    /\ Installed("main")
    /\ max_level = Trace
    /\ pre["main"].max_level = Error
    /\ logger = pre["main"].logger

====
